---------------------------- MODULE Spec2Model ----------------------------
(***************************************************************************)
(* A model of the wallet core: the polymorphic key operations of KeyPair   *)
(* and PublicKeyInfo (contents/key_pair.rs, contents/public_key_info.rs)   *)
(* and the lock / unlock transitions of UnlockedWallet and LockedWallet    *)
(* (unlocked.rs, locked.rs).                                               *)
(*                                                                         *)
(* Byte strings are sequences of their real length.  A byte is a symbolic  *)
(* token: a record that says which value it is a byte of (a secret, a      *)
(* public key, a signature over a message, a nonce, a sealed payload) and  *)
(* its position.  Tokens of different kinds have different field names, so *)
(* two byte strings are equal exactly when they are the same bytes of the  *)
(* same value.  The cryptography of the libraries is ideal: a signature    *)
(* verifies only under the key and the digest it was made with, an AEAD    *)
(* payload opens only under the cipher, key and nonce that sealed it.      *)
(***************************************************************************)
EXTENDS Integers, Sequences, FiniteSets, TLC

(***************************************************************************)
(* Bounds of the model.                                                    *)
(***************************************************************************)
\* secrets (private scalars / seeds) are numbered 1..MaxSecret
MaxSecret == 2
\* data strings are numbered 0..MaxData; string d is d bytes long (0: empty)
MaxData == 2
\* passwords are numbered 0..MaxPassword (0: the empty password)
MaxPassword == 2
\* outcomes of the random source (nonces, random keys, ephemeral secrets)
MaxRandom == 2
\* content references are numbered 1..MaxRef (MaxRef + 1 is never stored)
MaxRef == 2

KeyIds == 1 .. MaxSecret
Data == 0 .. MaxData
Passwords == 0 .. MaxPassword
Randoms == 1 .. MaxRandom
Refs == 1 .. MaxRef

(***************************************************************************)
(* Program constants.                                                      *)
(***************************************************************************)
\* locked.rs: the trailing nonce of LockedWallet.ciphertext
NONCE_LEN == 24
\* public_key_info.rs: the Ed25519 signature length verify asks for
ED25519_SIGNATURE_LEN == 64
\* public_key_info.rs: array_ref!(signature, 0, 32), array_ref!(signature, 32, 32)
SCALAR_LEN == 32
\* public_key_info.rs: array_ref!(&self.public_key, 0, 48), array_ref!(signature, 0, 48)
BLS_G1_LEN == 48
\* public_key_info.rs: array_ref!(signature, 0, 96), array_ref!(&self.public_key, 0, 96)
BLS_G2_LEN == 96
\* key_pair.rs tests: a 32-byte secret, a 33-byte compressed SEC1 public key
SECRET_LEN == 32
SEC1_COMPRESSED_LEN == 33
\* public_key_info.rs test: a 65-byte uncompressed SEC1 public key
SEC1_UNCOMPRESSED_LEN == 65
\* encryption::KEYSIZE, the X25519 public key length
KEYSIZE == 32
\* the tag a Poly1305 / GCM AEAD appends to the ciphertext
TAG_LEN == 16
\* the nonce of ursa's Aes256Gcm, which encrypt_easy prepends
AES_GCM_NONCE_LEN == 12

(***************************************************************************)
(* Result<T, Error> and a panic (an abort of the call).                    *)
(***************************************************************************)
Ok(v) == [ok |-> v]
Err(e) == [err |-> e]
Panic(why) == [panic |-> why]
IsOk(r) == "ok" \in DOMAIN r
IsErr(r) == "err" \in DOMAIN r
IsPanic(r) == "panic" \in DOMAIN r

(***************************************************************************)
(* Byte strings.                                                           *)
(***************************************************************************)
\* &b[..n]: the first n bytes (the caller has checked n <= Len(b))
Prefix(b, n) == SubSeq(b, 1, n)
\* &b[n..]
Suffix(b, n) == SubSeq(b, n + 1, Len(b))

DataLen(d) == d
DataBytes(d) == [i \in 1 .. DataLen(d) |-> [i |-> i, data |-> d]]
SecretBytes(s) == [i \in 1 .. SECRET_LEN |-> [i |-> i, sk |-> s]]
PublicBytes(curve, s, n) == [i \in 1 .. n |-> [i |-> i, curve |-> curve, pk |-> s]]
SignatureBytes(scheme, hash, s, d, n) == [i \in 1 .. n |-> [i |-> i, scheme |-> scheme, hash |-> hash, msg |-> d, sig |-> s]]
ZeroBytes(n) == [i \in 1 .. n |-> [i |-> i, zero |-> 0]]
NonceBytes(r, n) == [i \in 1 .. n |-> [i |-> i, nonce |-> r]]

(***************************************************************************)
(* KeyType (public_key_info.rs).                                           *)
(***************************************************************************)
KeyType == {"JwsVerificationKey2020", "EcdsaSecp256k1VerificationKey2019", "Ed25519VerificationKey2018", "GpgVerificationKey2020", "RsaVerificationKey2018", "X25519KeyAgreementKey2019", "SchnorrSecp256k1VerificationKey2019", "EcdsaSecp256k1RecoveryMethod2020", "Bls12381G1Key2020", "Bls12381G2Key2020"}

(***************************************************************************)
(* The libraries' key generation.                                          *)
(***************************************************************************)
\* ursa Ed25519Sha512::expand_keypair / keypair: the private key is seed || public key
Ed25519Keypair(s) == <<PublicBytes("ed25519", s, KEYSIZE), SecretBytes(s) \o PublicBytes("ed25519", s, KEYSIZE)>>
\* ursa EcdsaSecp256k1Sha256::keypair: a compressed SEC1 point, the scalar as given
Secp256k1Keypair(s) == <<PublicBytes("secp256k1", s, SEC1_COMPRESSED_LEN), SecretBytes(s)>>
\* ursa X25519Sha256::keypair
X25519Keypair(s) == <<PublicBytes("x25519", s, KEYSIZE), SecretBytes(s)>>

\* the secret a private key holds: the first SECRET_LEN bytes
IsSecretOf(private_key, s) == Len(private_key) >= SECRET_LEN /\ Prefix(private_key, SECRET_LEN) = SecretBytes(s)
\* the secret whose public key these bytes are
IsPublicOf(bytes, curve, n, s) == bytes = PublicBytes(curve, s, n)
IsSec1Of(bytes, s) == IsPublicOf(bytes, "secp256k1", SEC1_COMPRESSED_LEN, s) \/ IsPublicOf(bytes, "secp256k1", SEC1_UNCOMPRESSED_LEN, s)

(***************************************************************************)
(* The libraries' signature schemes.  A signature holds the signer, the    *)
(* scheme, the hash the message went through and the message.              *)
(***************************************************************************)
IsData(bytes, d) == bytes = DataBytes(d)
\* ursa Ed25519Sha512::sign
Ed25519Sign(data, private_key) == LET s == CHOOSE k \in KeyIds : IsSecretOf(private_key, k) d == CHOOSE x \in Data : IsData(data, x) IN SignatureBytes("ed25519", "sha512", s, d, ED25519_SIGNATURE_LEN)
\* ursa EcdsaSecp256k1Sha256::sign: SHA-256 of the message, compact r || s
EcdsaSha256Sign(data, private_key) == LET s == CHOOSE k \in KeyIds : IsSecretOf(private_key, k) d == CHOOSE x \in Data : IsData(data, x) IN SignatureBytes("ecdsa_secp256k1", "sha256", s, d, 2 * SCALAR_LEN)
\* sha3::Keccak256 of data, as the 32-byte message secp256k1 signs
Keccak256(data) == [hash |-> "keccak256", of |-> CHOOSE x \in Data : IsData(data, x)]
\* secp256k1 sign_recoverable + serialize_compact: (recovery id, r || s)
SignRecoverable(message, private_key) == LET s == CHOOSE k \in KeyIds : IsSecretOf(private_key, k) IN <<(s + message.of) % 2, SignatureBytes("ecdsa_secp256k1", message.hash, s, message.of, 2 * SCALAR_LEN)>>
RecoveryByte(v) == [i |-> 1, recid |-> v]

\* ed25519_dalek PublicKey::verify
Ed25519Verify(public_key, data, sig) == \E s \in KeyIds, d \in Data : IsPublicOf(public_key, "ed25519", KEYSIZE, s) /\ IsData(data, d) /\ sig = SignatureBytes("ed25519", "sha512", s, d, ED25519_SIGNATURE_LEN)
\* k256 Signature::from_scalars: a zero scalar is refused
FromScalarsFails(s1, s2) == s1 = ZeroBytes(SCALAR_LEN) \/ s2 = Suffix(ZeroBytes(2 * SCALAR_LEN), SCALAR_LEN)
\* k256 VerifyingKey::verify: ECDSA over SHA-256 of the message
EcdsaSha256Verify(public_key, data, rs) == \E s \in KeyIds, d \in Data : IsSec1Of(public_key, s) /\ IsData(data, d) /\ rs = SignatureBytes("ecdsa_secp256k1", "sha256", s, d, 2 * SCALAR_LEN)
\* k256 recoverable::Signature::from_trial_recovery: some recovery id recovers
\* public_key from rs and the Keccak-256 digest of the message
TrialRecovers(public_key, data, rs) == \E s \in KeyIds, d \in Data : IsSec1Of(public_key, s) /\ IsData(data, d) /\ rs = SignatureBytes("ecdsa_secp256k1", "keccak256", s, d, 2 * SCALAR_LEN)
\* signature_bls: is this a point of the group (a public key or a signature)
IsBlsPublic(bytes, group, n) == \E s \in KeyIds : IsPublicOf(bytes, group, n, s)
IsBlsSignature(bytes, scheme, n) == \E s \in KeyIds, d \in Data : bytes = SignatureBytes(scheme, "hash_to_curve", s, d, n)
\* signature_bls verify(pk, msg): the pairing check of sig over the message bytes
BlsVerify(sig, scheme, n, public_key, group, m, msg) == \E s \in KeyIds, d \in Data : IsPublicOf(public_key, group, m, s) /\ IsData(msg, d) /\ sig = SignatureBytes(scheme, "hash_to_curve", s, d, n)


(***************************************************************************)
(* The libraries' authenticated encryption.  A sealed payload is as long   *)
(* as the plaintext plus the tag; each of its bytes holds what sealed it.  *)
(***************************************************************************)
Seal(cipher, key, nonce, aad, pt) == [i \in 1 .. Len(pt) + TAG_LEN |-> [i |-> i, nonce |-> nonce, cipher |-> cipher, key |-> key, aad |-> aad, sealed |-> pt]]
IsSealed(payload) == Len(payload) >= TAG_LEN /\ "sealed" \in DOMAIN payload[1]
\* Aead::decrypt: the plaintext, or the authentication failure
Open(cipher, key, nonce, aad, payload) == IF IsSealed(payload) /\ payload = Seal(cipher, key, nonce, aad, payload[1].sealed) THEN Ok(payload[1].sealed) ELSE Err("AeadCryptoError")
\* sha3::Sha3_256 of a password, as a 256-bit key
Sha3_256(password) == [sha3_256 |-> password]
\* a key of the random source
RandomKey(r) == [random |-> r]

(***************************************************************************)
(* The sealed-box protocol, encryption::seal_box and unseal_box: an        *)
(* ephemeral X25519 key agreement and XChaCha20-Poly1305; the output is    *)
(* ephemeral public key || nonce || sealed payload.                        *)
(***************************************************************************)
EphemeralPublic(e) == [i \in 1 .. KEYSIZE |-> [i |-> i, epk |-> e]]
\* X25519 agreement of the ephemeral secret e and a static public key
SharedKey(e, public_key) == [eph |-> e, to |-> public_key]
seal_box(data, pk, e, n) == Ok(EphemeralPublic(e) \o NonceBytes(n, NONCE_LEN) \o Seal("XChaCha20Poly1305", SharedKey(e, pk), NonceBytes(n, NONCE_LEN), "", data))
unseal_box(data, pk, sk) == IF Len(data) < KEYSIZE + NONCE_LEN + TAG_LEN THEN Err("AeadCryptoError") ELSE LET epk == Prefix(data, KEYSIZE) nonce == SubSeq(data, KEYSIZE + 1, KEYSIZE + NONCE_LEN) payload == Suffix(data, KEYSIZE + NONCE_LEN) IN IF \E e \in Randoms, s \in KeyIds : epk = EphemeralPublic(e) /\ IsSecretOf(sk, s) /\ IsOk(Open("XChaCha20Poly1305", SharedKey(e, X25519Keypair(s)[1]), nonce, "", payload)) THEN Ok(payload[1].sealed) ELSE Err("AeadCryptoError")

(***************************************************************************)
(* PublicKeyInfo (public_key_info.rs).                                     *)
(***************************************************************************)
PublicKeyInfo_new(kt, pk) == [public_key |-> pk, controller |-> <<>>, key_type |-> kt]

PublicKeyInfo_controller(self, controller) == [self EXCEPT !.controller = controller]

\* encrypt sealing to a KEYSIZE array the key was never copied into
PublicKeyInfo_encrypt_zeroed_key(self, data, e, n) ==
  CASE self.key_type = "X25519KeyAgreementKey2019" ->
         IF Len(self.public_key) < KEYSIZE THEN Panic("range end index out of range")
         ELSE seal_box(data, ZeroBytes(KEYSIZE), e, n)
    [] OTHER -> Err("WrongKeyType")

PublicKeyInfo_encrypt(self, data, e, n) ==
  CASE self.key_type = "X25519KeyAgreementKey2019" ->
         \* self.public_key[..KEYSIZE] aborts on a shorter key; try_into of
         \* a KEYSIZE slice cannot fail
         IF Len(self.public_key) < KEYSIZE THEN Panic("range end index out of range")
         ELSE seal_box(data, Prefix(self.public_key, KEYSIZE), e, n)
    [] OTHER -> Err("WrongKeyType")

verify_Ed25519(self, data, signature) ==
  IF ~ \E s \in KeyIds : IsPublicOf(self.public_key, "ed25519", KEYSIZE, s) THEN Err("Other")
  ELSE IF Len(signature) # ED25519_SIGNATURE_LEN THEN Err("WrongKeyLength")
  ELSE Ok(Ed25519Verify(self.public_key, data, signature))

verify_EcdsaSecp256k1(self, data, signature) ==
  IF ~ \E s \in KeyIds : IsSec1Of(self.public_key, s) THEN Err("EcdsaCryptoError")
  ELSE IF Len(signature) < 2 * SCALAR_LEN THEN Panic("range end index out of range")
  ELSE LET s1 == SubSeq(signature, 1, SCALAR_LEN)
           s2 == SubSeq(signature, SCALAR_LEN + 1, 2 * SCALAR_LEN)
       IN IF FromScalarsFails(s1, s2) THEN Err("EcdsaCryptoError")
          ELSE Ok(EcdsaSha256Verify(self.public_key, data, s1 \o s2))

\* the recovery branch with the length test of the Ed25519 branch
verify_EcdsaSecp256k1Recovery_len64(self, data, signature) ==
  IF Len(signature) # ED25519_SIGNATURE_LEN THEN Err("WrongKeyLength")
  ELSE LET s1 == SubSeq(signature, 1, SCALAR_LEN)
           s2 == SubSeq(signature, SCALAR_LEN + 1, 2 * SCALAR_LEN)
       IN IF FromScalarsFails(s1, s2) THEN Err("EdCryptoError")
          ELSE IF ~ \E s \in KeyIds : IsSec1Of(self.public_key, s) THEN Err("EcdsaCryptoError")
          ELSE IF ~ TrialRecovers(self.public_key, data, s1 \o s2) THEN Err("EcdsaCryptoError")
          ELSE Ok(TRUE)

verify_EcdsaSecp256k1Recovery(self, data, signature) ==
  IF Len(signature) < 2 * SCALAR_LEN THEN Panic("range end index out of range")
  ELSE LET s1 == SubSeq(signature, 1, SCALAR_LEN)
           s2 == SubSeq(signature, SCALAR_LEN + 1, 2 * SCALAR_LEN)
       IN IF FromScalarsFails(s1, s2) THEN Err("EdCryptoError")
          ELSE IF ~ \E s \in KeyIds : IsSec1Of(self.public_key, s) THEN Err("EcdsaCryptoError")
          ELSE IF ~ TrialRecovers(self.public_key, data, s1 \o s2) THEN Err("EcdsaCryptoError")
          \* the key recovered from the recoverable signature is the one the
          \* trial recovery matched against self.public_key
          ELSE Ok(TRUE)

\* Bls12381G1Key2020: PublicKeyVt (48 bytes), SignatureVt (96 bytes);
\* Bls12381G2Key2020: PublicKey (96 bytes), Signature (48 bytes).
\* The message handed to the pairing check is `signature`, not `data`.
verify_Bls(self, data, signature, group, pk_len, scheme, sig_len) ==
  IF Len(self.public_key) < pk_len THEN Panic("range end index out of range")
  ELSE IF ~ IsBlsPublic(Prefix(self.public_key, pk_len), group, pk_len) THEN Panic("unwrap on a None value")
  ELSE IF Len(signature) < sig_len THEN Panic("range end index out of range")
  ELSE IF ~ IsBlsSignature(Prefix(signature, sig_len), scheme, sig_len) THEN Panic("unwrap on a None value")
  ELSE Ok(BlsVerify(Prefix(signature, sig_len), scheme, sig_len, Prefix(self.public_key, pk_len), group, pk_len, signature))

PublicKeyInfo_verify(self, data, signature) ==
  CASE self.key_type = "Ed25519VerificationKey2018" -> verify_Ed25519(self, data, signature)
    [] self.key_type = "EcdsaSecp256k1VerificationKey2019" -> verify_EcdsaSecp256k1(self, data, signature)
    [] self.key_type = "EcdsaSecp256k1RecoveryMethod2020" -> verify_EcdsaSecp256k1Recovery(self, data, signature)
    [] self.key_type = "Bls12381G1Key2020" -> verify_Bls(self, data, signature, "bls_g1", BLS_G1_LEN, "bls_vt", BLS_G2_LEN)
    [] self.key_type = "Bls12381G2Key2020" -> verify_Bls(self, data, signature, "bls_g2", BLS_G2_LEN, "bls", BLS_G1_LEN)
    [] OTHER -> Err("WrongKeyType")

(***************************************************************************)
(* KeyPair (key_pair.rs).                                                  *)
(***************************************************************************)
KeyPair(pk, sk, key_type) == [private_key |-> sk, public_key |-> [public_key |-> pk, controller |-> <<>>, key_type |-> key_type]]

\* new drawing the X25519 key pair from the random source (keypair(None)),
\* the given secret dropped
KeyPair_new_keypair_none(key_type, priv_key) ==
  LET s == CHOOSE k \in KeyIds : priv_key = SecretBytes(k)
      fresh == CHOOSE k \in KeyIds : priv_key # SecretBytes(k)
  IN CASE key_type = "Ed25519VerificationKey2018" -> Ok(KeyPair(Ed25519Keypair(s)[1], Ed25519Keypair(s)[2], key_type))
       [] key_type \in {"EcdsaSecp256k1VerificationKey2019", "EcdsaSecp256k1RecoveryMethod2020"} -> Ok(KeyPair(Secp256k1Keypair(s)[1], Secp256k1Keypair(s)[2], key_type))
       [] key_type = "X25519KeyAgreementKey2019" -> Ok(KeyPair(X25519Keypair(fresh)[1], X25519Keypair(fresh)[2], key_type))
       [] OTHER -> Err("UnsupportedKeyType")

\* priv_key is a SECRET_LEN-byte secret
KeyPair_new(key_type, priv_key) ==
  LET s == CHOOSE k \in KeyIds : priv_key = SecretBytes(k)
  IN CASE key_type = "Ed25519VerificationKey2018" -> Ok(KeyPair(Ed25519Keypair(s)[1], Ed25519Keypair(s)[2], key_type))
       [] key_type \in {"EcdsaSecp256k1VerificationKey2019", "EcdsaSecp256k1RecoveryMethod2020"} -> Ok(KeyPair(Secp256k1Keypair(s)[1], Secp256k1Keypair(s)[2], key_type))
       [] key_type = "X25519KeyAgreementKey2019" -> Ok(KeyPair(X25519Keypair(s)[1], X25519Keypair(s)[2], key_type))
       [] OTHER -> Err("UnsupportedKeyType")

\* s is the secret the random source of keypair(None) draws
KeyPair_random_pair(key_type, s) ==
  CASE key_type = "X25519KeyAgreementKey2019" -> Ok(KeyPair(X25519Keypair(s)[1], X25519Keypair(s)[2], key_type))
    [] key_type = "Ed25519VerificationKey2018" -> Ok(KeyPair(Ed25519Keypair(s)[1], Ed25519Keypair(s)[2], key_type))
    [] key_type \in {"EcdsaSecp256k1VerificationKey2019", "EcdsaSecp256k1RecoveryMethod2020"} -> Ok(KeyPair(Secp256k1Keypair(s)[1], Secp256k1Keypair(s)[2], key_type))
    [] OTHER -> Err("UnsupportedKeyType")

\* controller rebuilding the public part from the wrong key bytes
KeyPair_controller_from_private(self, controller) == [private_key |-> self.private_key, public_key |-> PublicKeyInfo_controller(PublicKeyInfo_new(self.public_key.key_type, self.private_key), controller)]

KeyPair_controller(self, controller) == [self EXCEPT !.public_key = PublicKeyInfo_controller(self.public_key, controller)]

KeyPair_sign(self, data) ==
  CASE self.public_key.key_type = "Ed25519VerificationKey2018" -> Ok(Ed25519Sign(data, self.private_key))
    [] self.public_key.key_type = "EcdsaSecp256k1VerificationKey2019" -> Ok(EcdsaSha256Sign(data, self.private_key))
    [] self.public_key.key_type = "EcdsaSecp256k1RecoveryMethod2020" ->
         LET output == Keccak256(data)
             sig == SignRecoverable(output, self.private_key)
         IN Ok(sig[2] \o <<RecoveryByte(sig[1])>>)
    [] OTHER -> Err("WrongKeyType")

\* decrypt taking an Ed25519 secret for an X25519 one
KeyPair_decrypt_ed25519_too(self, data) ==
  CASE self.public_key.key_type \in {"X25519KeyAgreementKey2019", "Ed25519VerificationKey2018"} -> unseal_box(data, self.public_key.public_key, Prefix(self.private_key, KEYSIZE))
    [] OTHER -> Err("WrongKeyType")

KeyPair_decrypt(self, data) ==
  CASE self.public_key.key_type = "X25519KeyAgreementKey2019" -> unseal_box(data, self.public_key.public_key, self.private_key)
    [] OTHER -> Err("WrongKeyType")

KeyPair_clean(self) == self.public_key

(***************************************************************************)
(* UnlockedWallet and its canonical text encoding (unlocked.rs).           *)
(* The text is a sequence of members, one per field of the struct; a       *)
(* member stands for the bytes that encode it.                             *)
(***************************************************************************)
UnlockedWallet(id, contents) == [id |-> id, contents |-> contents, context |-> <<"https://w3id.org/wallet/v1">>, wallet_type |-> <<"UniversalWallet2020">>]

\* serde_json::to_string of an UnlockedWallet
to_string(w) == <<[json_context |-> w.context], [json_id |-> w.id], [json_type |-> w.wallet_type], [json_contents |-> w.contents]>>
\* std::str::from_utf8
from_utf8(bytes) == IF \E i \in 1 .. Len(bytes) : "invalid_utf8" \in DOMAIN bytes[i] THEN Err("Utf8") ELSE Ok(bytes)
\* serde_json::from_str::<UnlockedWallet>
from_str(text) ==
  IF /\ Len(text) = 4
     /\ DOMAIN text[1] = {"json_context"}
     /\ DOMAIN text[2] = {"json_id"}
     /\ DOMAIN text[3] = {"json_type"}
     /\ DOMAIN text[4] = {"json_contents"}
  THEN Ok([id |-> text[2].json_id, contents |-> text[4].json_contents, context |-> text[1].json_context, wallet_type |-> text[3].json_type])
  ELSE Err("Serde")

\* Content::Key(k) and the other variants of Content
ContentKey(k) == [key |-> k]
ContentOther == [entropy |-> "seed"]
IsContentKey(c) == "key" \in DOMAIN c

\* UnlockedWallet::get_content: the lookup of a reference in the content map
get_content(self, key_ref) == IF key_ref \in DOMAIN self.contents THEN [some |-> self.contents[key_ref]] ELSE [none |-> TRUE]
\* HashMap::get
contents_get(self, key_ref) == IF key_ref \in DOMAIN self.contents THEN [some |-> self.contents[key_ref]] ELSE [none |-> TRUE]
IsSome(o) == "some" \in DOMAIN o

\* contents::key::Key: a content entry's key, held as its type and secret;
\* its operations are those of the key pair made from them
Key(key_type, s) == [key_type |-> key_type, secret |-> s]
KeyPairOf(k) == KeyPair_new(k.key_type, SecretBytes(k.secret)).ok
Key_sign(k, data) == KeyPair_sign(KeyPairOf(k), data)
Key_verify(k, data, signature) == PublicKeyInfo_verify(KeyPairOf(k).public_key, data, signature)
Key_decrypt(k, data) == KeyPair_decrypt(KeyPairOf(k), data)

sign_raw(self, data, key_ref) ==
  LET c == get_content(self, key_ref)
  IN IF IsSome(c)
     THEN IF IsContentKey(c.some) THEN Key_sign(c.some.key, data)
          ELSE Err("incorrect content type")
     ELSE Err("no key found")

\* verify_raw with the two lookup errors the other way round
verify_raw_swapped_errors(self, data, key_ref, signature) ==
  LET c == contents_get(self, key_ref)
  IN IF IsSome(c)
     THEN IF IsContentKey(c.some) THEN Key_verify(c.some.key, data, signature)
          ELSE Err("no key found")
     ELSE Err("incorrect content type")

verify_raw(self, data, key_ref, signature) ==
  LET c == contents_get(self, key_ref)
  IN IF IsSome(c)
     THEN IF IsContentKey(c.some) THEN Key_verify(c.some.key, data, signature)
          ELSE Err("incorrect content type")
     ELSE Err("no key found")

UnlockedWallet_decrypt(self, data, key_ref) ==
  LET c == contents_get(self, key_ref)
  IN IF IsSome(c)
     THEN IF IsContentKey(c.some) THEN Key_decrypt(c.some.key, data)
          ELSE Err("incorrect content type")
     ELSE Err("no key found")

\* ursa SymmetricEncryptor::<Aes256Gcm>::default(): an encryptor with a key
\* of the random source
SymmetricEncryptor_default(r) == RandomKey(r)
\* ursa encrypt_easy(aad, plaintext): a fresh nonce, then nonce || sealed
encrypt_easy(key, aad, plaintext, n) == NonceBytes(n, AES_GCM_NONCE_LEN) \o Seal("Aes256Gcm", key, NonceBytes(n, AES_GCM_NONCE_LEN), aad, plaintext)

\* r and n are what the random source gives the key and the nonce.  The
\* struct literal names its one field encrypted_data; it is the blob that
\* LockedWallet calls ciphertext.
UnlockedWallet_lock(self, key, r, n) ==
  LET pass == Sha3_256(key)
      aes == SymmetricEncryptor_default(r)
  IN Ok([id |-> self.id, ciphertext |-> encrypt_easy(aes, self.id, to_string(self), n)])

(***************************************************************************)
(* LockedWallet (locked.rs).                                               *)
(***************************************************************************)
LockedWallet_new(id, ct) == [id |-> id, ciphertext |-> ct]

\* unlock with the AEAD failure dropped (unwrap_or_default on the decryption)
LockedWallet_unlock_unwrap_or_default(self, key) ==
  LET pass == Sha3_256(key)
  IN IF Len(self.ciphertext) < NONCE_LEN THEN Panic("attempt to subtract with overflow")
     ELSE LET nonce_start == Len(self.ciphertext) - NONCE_LEN
              nonce == Suffix(self.ciphertext, nonce_start)
              content == Prefix(self.ciphertext, nonce_start)
              dec == Open("XChaCha20Poly1305", pass, nonce, "", content)
              as_str == from_utf8(IF IsErr(dec) THEN <<>> ELSE dec.ok)
          IN IF IsErr(as_str) THEN as_str ELSE from_str(as_str.ok)

LockedWallet_unlock(self, key) ==
  LET pass == Sha3_256(key)
  IN IF Len(self.ciphertext) < NONCE_LEN THEN Panic("attempt to subtract with overflow")
     ELSE LET nonce_start == Len(self.ciphertext) - NONCE_LEN
              nonce == Suffix(self.ciphertext, nonce_start)
              content == Prefix(self.ciphertext, nonce_start)
              dec == Open("XChaCha20Poly1305", pass, nonce, "", content)
          IN IF IsErr(dec) THEN dec
             ELSE LET as_str == from_utf8(dec.ok)
                  IN IF IsErr(as_str) THEN as_str ELSE from_str(as_str.ok)

(***************************************************************************)
(* The inputs the operations are called with.                              *)
(***************************************************************************)
SigningTypes == {"Ed25519VerificationKey2018", "EcdsaSecp256k1VerificationKey2019", "EcdsaSecp256k1RecoveryMethod2020"}
ImplementedTypes == SigningTypes \cup {"X25519KeyAgreementKey2019"}
BlsTypes == {"Bls12381G1Key2020", "Bls12381G2Key2020"}
VerifyingTypes == SigningTypes \cup BlsTypes
UnimplementedTypes == KeyType \ (ImplementedTypes \cup BlsTypes)

Controllers == {<<>>, <<"did:example:alice">>}

\* every key pair KeyPair::new and KeyPair::random_pair can return
KeyPairs == {KeyPair_new(kt, SecretBytes(s)).ok : kt \in ImplementedTypes, s \in KeyIds}

\* public keys handed to PublicKeyInfo::new: the well-formed keys of the
\* type, and the 13 zero bytes of its documentation
ExternalPublicKeys(kt) ==
  {ZeroBytes(13)} \cup
  CASE kt = "Ed25519VerificationKey2018" -> {PublicBytes("ed25519", s, KEYSIZE) : s \in KeyIds}
    [] kt \in {"EcdsaSecp256k1VerificationKey2019", "EcdsaSecp256k1RecoveryMethod2020"} -> {PublicBytes("secp256k1", s, n) : s \in KeyIds, n \in {SEC1_COMPRESSED_LEN, SEC1_UNCOMPRESSED_LEN}}
    [] kt = "X25519KeyAgreementKey2019" -> {PublicBytes("x25519", s, KEYSIZE) : s \in KeyIds}
    [] kt = "Bls12381G1Key2020" -> {PublicBytes("bls_g1", s, BLS_G1_LEN) : s \in KeyIds}
    [] kt = "Bls12381G2Key2020" -> {PublicBytes("bls_g2", s, BLS_G2_LEN) : s \in KeyIds}
    [] OTHER -> {}
PublicKeyInfos == UNION {{PublicKeyInfo_new(kt, pk) : pk \in ExternalPublicKeys(kt)} : kt \in KeyType}

\* public keys assigned to the public_key field of a key pair: the
\* uncompressed SEC1 key of the first secret (as the full-cycle test does)
\* and a key of an unimplemented type
AssignedPublicKeys == {PublicKeyInfo_new("EcdsaSecp256k1VerificationKey2019", PublicBytes("secp256k1", 1, SEC1_UNCOMPRESSED_LEN)), PublicKeyInfo_new("RsaVerificationKey2018", ZeroBytes(13))}

\* the well-formed signatures of the scheme of a key type
WellFormedSignatures(kt) ==
  CASE kt \in SigningTypes -> {KeyPair_sign(kp, DataBytes(d)).ok : kp \in {k \in KeyPairs : k.public_key.key_type = kt}, d \in Data}
    [] kt = "Bls12381G1Key2020" -> {SignatureBytes("bls_vt", "hash_to_curve", s, d, BLS_G2_LEN) : s \in KeyIds, d \in Data}
    [] kt = "Bls12381G2Key2020" -> {SignatureBytes("bls", "hash_to_curve", s, d, BLS_G1_LEN) : s \in KeyIds, d \in Data}
    [] OTHER -> {}
\* signatures handed to verify on a key of type kt: the well-formed ones of
\* its scheme, each also one byte short and one byte long; and for every
\* type the empty signature, 64 zero bytes, and one signature of each of
\* the lengths 48, 64, 65 and 96; for the recovery type also r || s of each
\* well-formed signature with the other recovery id
Signatures(kt) ==
  WellFormedSignatures(kt) \cup {Prefix(sig, Len(sig) - 1) : sig \in WellFormedSignatures(kt)} \cup {sig \o ZeroBytes(1) : sig \in WellFormedSignatures(kt)}
  \cup {<<>>, ZeroBytes(2 * SCALAR_LEN)}
  \cup {SignatureBytes("bls", "hash_to_curve", 1, 1, BLS_G1_LEN), SignatureBytes("bls_vt", "hash_to_curve", 1, 1, BLS_G2_LEN)}
  \cup {KeyPair_sign(KeyPair_new(t, SecretBytes(1)).ok, DataBytes(1)).ok : t \in SigningTypes}
  \cup (IF kt = "EcdsaSecp256k1RecoveryMethod2020" THEN {Prefix(sig, 2 * SCALAR_LEN) \o <<RecoveryByte(1 - sig[Len(sig)].recid)>> : sig \in WellFormedSignatures(kt)} ELSE {})

\* sealed boxes handed to decrypt: data sealed to each X25519 public key
SealedBoxes == {seal_box(DataBytes(d), PublicBytes("x25519", s, KEYSIZE), e, e).ok : d \in Data, s \in KeyIds, e \in Randoms}

\* the wallets: every content map over the references 1..k, k <= MaxRef
ContentValues == {ContentOther, ContentKey(Key("Ed25519VerificationKey2018", 1)), ContentKey(Key("X25519KeyAgreementKey2019", 1))}
ContentMaps(values) == UNION {[1 .. k -> values] : k \in 0 .. MaxRef}
Wallets == {UnlockedWallet("urn:uuid:7c0e", c) : c \in ContentMaps(ContentValues)}
\* the wallets that are locked and unlocked: lock and unlock do not look
\* into an entry, so one kind of key is held
LockWallets == {UnlockedWallet("urn:uuid:7c0e", c) : c \in ContentMaps({ContentOther, ContentKey(Key("Ed25519VerificationKey2018", 1))})}

\* ciphertexts handed to LockedWallet::new: blobs in the layout unlock
\* reads (payload sealed with XChaCha20-Poly1305 under the SHA3-256 of a
\* password, then the nonce), whose plaintext is a wallet, is no UTF-8, or
\* is no wallet; and blobs of fewer than, and exactly, NONCE_LEN bytes
XChaChaBlob(pt, p, n) == Seal("XChaCha20Poly1305", Sha3_256(p), NonceBytes(n, NONCE_LEN), "", pt) \o NonceBytes(n, NONCE_LEN)
Plaintexts == {to_string(w) : w \in LockWallets} \cup {<<[invalid_utf8 |-> 255]>>, <<[json_id |-> "urn:uuid:7c0e"]>>}
ExternalCiphertexts == {XChaChaBlob(pt, p, 1) : pt \in Plaintexts, p \in Passwords} \cup {<<>>, NonceBytes(1, NONCE_LEN - 1), NonceBytes(1, NONCE_LEN)}
LockedWallets == {LockedWallet_new("urn:uuid:7c0e", ct) : ct \in ExternalCiphertexts}

(***************************************************************************)
(* The state.                                                              *)
(***************************************************************************)
VARIABLES
  wallet,     \* the UnlockedWallet the caller holds
  locked,     \* the LockedWallet the caller holds, or NoLocked
  lock_call,  \* the wallet and password `locked` was locked from, or NoCall
  key,        \* the KeyPair or PublicKeyInfo the caller holds, or NoKey
  args,       \* the data, signature and sealed box the caller holds
  result      \* the last call: the operation, its arguments and its outcome

vars == <<wallet, locked, lock_call, key, args, result>>

NoLocked == [no_locked |-> TRUE]
NoCall == [no_call |-> TRUE]
NoKey == [no_key |-> TRUE]
NoArgs == [no_args |-> TRUE]
IsKeyPair(k) == "private_key" \in DOMAIN k
IsPublicKeyInfo(k) == "key_type" \in DOMAIN k
\* the PublicKeyInfo of the held key: kp.public_key, or the key itself
PublicOf(k) == IF IsKeyPair(k) THEN k.public_key ELSE k
Args(d, signature, box) == [data |-> d, signature |-> signature, box |-> box]

(***************************************************************************)
(* Locking and unlocking a wallet.                                         *)
(***************************************************************************)
\* the caller holds a wallet, and no locked wallet or one that
\* LockedWallet::new made of a ciphertext from outside
Init ==
  /\ wallet \in LockWallets
  /\ locked \in {NoLocked} \cup LockedWallets
  /\ lock_call = NoCall
  /\ key = NoKey
  /\ args = NoArgs
  /\ result = [op |-> "init"]

\* r and n: what the random source gives for the key and for the nonce
Lock(p, r, n) ==
  LET out == UnlockedWallet_lock(wallet, p, r, n)
  IN /\ locked' = out.ok
     /\ lock_call' = [key |-> p, self |-> wallet]
     /\ result' = [key |-> p, self |-> wallet, op |-> "lock", out |-> out]
     /\ UNCHANGED <<wallet, key, args>>

\* a successful unlock hands the caller the wallet it returns
Unlock(q) ==
  /\ locked # NoLocked
  /\ LET out == LockedWallet_unlock(locked, q)
     IN /\ result' = [key |-> q, self |-> locked, op |-> "unlock", out |-> out, from |-> lock_call]
        /\ wallet' = IF IsOk(out) THEN out.ok ELSE wallet
  /\ UNCHANGED <<locked, lock_call, key, args>>

Next ==
  \/ \E p \in Passwords, r \in Randoms, n \in Randoms : Lock(p, r, n)
  \/ \E q \in Passwords : Unlock(q)

Spec == Init /\ [][Next]_vars

(***************************************************************************)
(* Using the keys of a wallet by reference.                                *)
(***************************************************************************)
SignRaw(d, key_ref) ==
  /\ result' = [data |-> d, self |-> wallet, key_ref |-> key_ref, op |-> "sign_raw", out |-> sign_raw(wallet, DataBytes(d), key_ref)]
  /\ UNCHANGED <<wallet, locked, lock_call, key, args>>

VerifyRaw(d, key_ref, signature) ==
  /\ result' = [data |-> d, self |-> wallet, signature |-> signature, key_ref |-> key_ref, op |-> "verify_raw", out |-> verify_raw(wallet, DataBytes(d), key_ref, signature)]
  /\ UNCHANGED <<wallet, locked, lock_call, key, args>>

WalletDecrypt(box, key_ref) ==
  /\ result' = [data |-> box, self |-> wallet, key_ref |-> key_ref, op |-> "decrypt", out |-> UnlockedWallet_decrypt(wallet, box, key_ref)]
  /\ UNCHANGED <<wallet, locked, lock_call, key, args>>

\* the references asked for: those a wallet may hold, and one it never holds
LookupRefs == 1 .. MaxRef + 1
LookupSignatures == {Key_sign(Key("Ed25519VerificationKey2018", 1), DataBytes(d)).ok : d \in Data}
LookupBoxes == {seal_box(DataBytes(d), PublicBytes("x25519", 1, KEYSIZE), 1, 1).ok : d \in Data}

LookupNext ==
  \/ \E d \in Data, key_ref \in LookupRefs : SignRaw(d, key_ref)
  \/ \E d \in Data, key_ref \in LookupRefs, sig \in LookupSignatures : VerifyRaw(d, key_ref, sig)
  \/ \E box \in LookupBoxes, key_ref \in LookupRefs : WalletDecrypt(box, key_ref)

LookupInit ==
  /\ wallet \in Wallets
  /\ locked = NoLocked
  /\ lock_call = NoCall
  /\ key = NoKey
  /\ args = NoArgs
  /\ result = [op |-> "init"]

LookupSpec == LookupInit /\ [][LookupNext]_vars

(***************************************************************************)
(* Making and using a key.  The caller keeps the signature and the sealed  *)
(* box the key returned, and hands them back to verify and decrypt.        *)
(***************************************************************************)
KeyInit ==
  /\ wallet = UnlockedWallet("urn:uuid:7c0e", <<>>)
  /\ locked = NoLocked
  /\ lock_call = NoCall
  /\ key = NoKey
  /\ args \in {Args(d, <<>>, <<>>) : d \in Data}
  /\ result = [op |-> "init"]

New(kt, s) ==
  /\ key = NoKey
  /\ LET out == KeyPair_new(kt, SecretBytes(s))
     IN /\ key' = IF IsOk(out) THEN out.ok ELSE key
        /\ result' = [key_type |-> kt, secret |-> s, op |-> "new", out |-> out]
  /\ UNCHANGED <<wallet, locked, lock_call, args>>

RandomPair(kt, s) ==
  /\ key = NoKey
  /\ LET out == KeyPair_random_pair(kt, s)
     IN /\ key' = IF IsOk(out) THEN out.ok ELSE key
        /\ result' = [key_type |-> kt, secret |-> s, op |-> "random_pair", out |-> out]
  /\ UNCHANGED <<wallet, locked, lock_call, args>>

NewPublicKeyInfo(kt, pk) ==
  /\ key = NoKey
  /\ key' = PublicKeyInfo_new(kt, pk)
  /\ result' = [key_type |-> kt, op |-> "PublicKeyInfo::new", out |-> Ok(key')]
  /\ UNCHANGED <<wallet, locked, lock_call, args>>

\* kp.public_key = pki, as in ecdsa_private_public_keys_full_cycle_test
AssignPublicKey(pki) ==
  /\ IsKeyPair(key)
  /\ key' = [key EXCEPT !.public_key = pki]
  /\ result' = [self |-> key, op |-> "assign", out |-> Ok(key')]
  /\ UNCHANGED <<wallet, locked, lock_call, args>>

Controller(c) ==
  /\ key # NoKey
  /\ key' = IF IsKeyPair(key) THEN KeyPair_controller(key, c) ELSE PublicKeyInfo_controller(key, c)
  /\ result' = [controller |-> c, self |-> key, op |-> "controller", out |-> Ok(key')]
  /\ UNCHANGED <<wallet, locked, lock_call, args>>

Sign ==
  /\ IsKeyPair(key)
  /\ LET out == KeyPair_sign(key, DataBytes(args.data))
     IN /\ result' = [data |-> args.data, self |-> key, op |-> "sign", out |-> out]
        /\ args' = IF IsOk(out) THEN [args EXCEPT !.signature = out.ok] ELSE args
  /\ UNCHANGED <<wallet, locked, lock_call, key>>

Verify ==
  /\ key # NoKey
  /\ result' = [data |-> args.data, self |-> PublicOf(key), signature |-> args.signature, op |-> "verify", out |-> PublicKeyInfo_verify(PublicOf(key), DataBytes(args.data), args.signature)]
  /\ UNCHANGED <<wallet, locked, lock_call, key, args>>

\* r: what the random source gives for the ephemeral secret and the nonce
Encrypt(r) ==
  /\ key # NoKey
  /\ LET out == PublicKeyInfo_encrypt(PublicOf(key), DataBytes(args.data), r, r)
     IN /\ result' = [data |-> args.data, self |-> PublicOf(key), op |-> "encrypt", out |-> out]
        /\ args' = IF IsOk(out) THEN [args EXCEPT !.box = out.ok] ELSE args
  /\ UNCHANGED <<wallet, locked, lock_call, key>>

Decrypt ==
  /\ IsKeyPair(key)
  /\ result' = [data |-> args.box, self |-> key, op |-> "decrypt", out |-> KeyPair_decrypt(key, args.box)]
  /\ UNCHANGED <<wallet, locked, lock_call, key, args>>

\* clean takes &self and returns a clone of the public part
Clean ==
  /\ IsKeyPair(key)
  /\ result' = [self |-> key, op |-> "clean", out |-> Ok(KeyPair_clean(key))]
  /\ UNCHANGED <<wallet, locked, lock_call, key, args>>

KeyNext ==
  \/ \E kt \in KeyType, s \in KeyIds : New(kt, s)
  \/ \E kt \in KeyType, s \in KeyIds : RandomPair(kt, s)
  \/ \E kt \in KeyType : \E pk \in ExternalPublicKeys(kt) : NewPublicKeyInfo(kt, pk)
  \/ \E pki \in AssignedPublicKeys : AssignPublicKey(pki)
  \/ \E c \in Controllers : Controller(c)
  \/ Sign
  \/ Verify
  \/ \E r \in Randoms : Encrypt(r)
  \/ Decrypt
  \/ Clean

KeySpec == KeyInit /\ [][KeyNext]_vars

(***************************************************************************)
(* A key pair from new or random_pair under the operations of KeyPair and  *)
(* of PublicKeyInfo alone: no field is written from outside.               *)
(***************************************************************************)
PairNext ==
  \/ \E kt \in KeyType, s \in KeyIds : New(kt, s)
  \/ \E kt \in KeyType, s \in KeyIds : RandomPair(kt, s)
  \/ \E c \in Controllers : Controller(c)
  \/ Sign
  \/ Verify
  \/ \E r \in Randoms : Encrypt(r)
  \/ Decrypt
  \/ Clean

PairSpec == KeyInit /\ [][PairNext]_vars

(***************************************************************************)
(* The key operations as functions: a key that the constructors can        *)
(* return, and data, a signature and a sealed box from anywhere.           *)
(***************************************************************************)
CallKeys == KeyPairs \cup PublicKeyInfos
CallArgs(kt) == {Args(d, sig, <<>>) : d \in Data, sig \in Signatures(kt)} \cup {Args(d, <<>>, box) : d \in Data, box \in SealedBoxes}

CallInit ==
  /\ wallet = UnlockedWallet("urn:uuid:7c0e", <<>>)
  /\ locked = NoLocked
  /\ lock_call = NoCall
  /\ key \in CallKeys
  /\ args \in CallArgs(PublicOf(key).key_type)
  /\ result = [op |-> "init"]

CallNext ==
  \/ Sign
  \/ Verify
  \/ \E r \in Randoms : Encrypt(r)
  \/ Decrypt

CallSpec == CallInit /\ [][CallNext]_vars

(***************************************************************************)
(* Parsing a key type name (public_key_info.rs): FromStr for KeyType and   *)
(* TryInto<KeyType> for &str, each a match on the string, arm by arm.  A   *)
(* variant of the enum is written as its identifier.                       *)
(***************************************************************************)
KeyType_from_str(s) ==
  CASE s = "JwsVerificationKey2020" -> Ok("JwsVerificationKey2020")
    [] s = "EcdsaSecp256k1VerificationKey2019" -> Ok("EcdsaSecp256k1VerificationKey2019")
    [] s = "Ed25519VerificationKey2018" -> Ok("Ed25519VerificationKey2018")
    [] s = "GpgVerificationKey2020" -> Ok("GpgVerificationKey2020")
    [] s = "RsaVerificationKey2018" -> Ok("RsaVerificationKey2018")
    [] s = "X25519KeyAgreementKey2019" -> Ok("X25519KeyAgreementKey2019")
    [] s = "SchnorrSecp256k1VerificationKey2019" -> Ok("SchnorrSecp256k1VerificationKey2019")
    [] s = "EcdsaSecp256k1RecoveryMethod2020" -> Ok("EcdsaSecp256k1RecoveryMethod2020")
    [] s = "Bls12381G1Key2020" -> Ok("Bls12381G1Key2020")
    [] s = "Bls12381G2Key2020" -> Ok("Bls12381G2Key2020")
    [] OTHER -> Err("UnsupportedKeyType")

\* try_into with the arm of one secp256k1 name copied from the other
KeyType_try_into_copied_arm(self) == IF self = "EcdsaSecp256k1RecoveryMethod2020" THEN Ok("EcdsaSecp256k1VerificationKey2019") ELSE KeyType_from_str(self)

KeyType_try_into(self) ==
  CASE self = "JwsVerificationKey2020" -> Ok("JwsVerificationKey2020")
    [] self = "EcdsaSecp256k1VerificationKey2019" -> Ok("EcdsaSecp256k1VerificationKey2019")
    [] self = "Ed25519VerificationKey2018" -> Ok("Ed25519VerificationKey2018")
    [] self = "GpgVerificationKey2020" -> Ok("GpgVerificationKey2020")
    [] self = "RsaVerificationKey2018" -> Ok("RsaVerificationKey2018")
    [] self = "X25519KeyAgreementKey2019" -> Ok("X25519KeyAgreementKey2019")
    [] self = "SchnorrSecp256k1VerificationKey2019" -> Ok("SchnorrSecp256k1VerificationKey2019")
    [] self = "EcdsaSecp256k1RecoveryMethod2020" -> Ok("EcdsaSecp256k1RecoveryMethod2020")
    [] self = "Bls12381G1Key2020" -> Ok("Bls12381G1Key2020")
    [] self = "Bls12381G2Key2020" -> Ok("Bls12381G2Key2020")
    [] OTHER -> Err("UnsupportedKeyType")

\* the strings a caller parses: the canonical names, the same names in
\* another case, with a blank before or after, and strings that name nothing
LowerCaseNames == {"jwsverificationkey2020", "ecdsasecp256k1verificationkey2019", "ed25519verificationkey2018", "gpgverificationkey2020", "rsaverificationkey2018", "x25519keyagreementkey2019", "schnorrsecp256k1verificationkey2019", "ecdsasecp256k1recoverymethod2020", "bls12381g1key2020", "bls12381g2key2020"}
UpperCaseNames == {"JWSVERIFICATIONKEY2020", "ECDSASECP256K1VERIFICATIONKEY2019", "ED25519VERIFICATIONKEY2018", "GPGVERIFICATIONKEY2020", "RSAVERIFICATIONKEY2018", "X25519KEYAGREEMENTKEY2019", "SCHNORRSECP256K1VERIFICATIONKEY2019", "ECDSASECP256K1RECOVERYMETHOD2020", "BLS12381G1KEY2020", "BLS12381G2KEY2020"}
ParseTexts == KeyType \cup LowerCaseNames \cup UpperCaseNames \cup {n \o " " : n \in KeyType} \cup {" " \o n : n \in KeyType} \cup {"", "Ed25519", "VerificationKey2018", "Bls12381G3Key2020"}
Text(s) == [text |-> s]

ParseInit ==
  /\ wallet = UnlockedWallet("urn:uuid:7c0e", <<>>)
  /\ locked = NoLocked
  /\ lock_call = NoCall
  /\ key = NoKey
  /\ args \in {Text(s) : s \in ParseTexts}
  /\ result = [op |-> "init"]

FromStr ==
  /\ result' = [text |-> args.text, op |-> "from_str", out |-> KeyType_from_str(args.text)]
  /\ UNCHANGED <<wallet, locked, lock_call, key, args>>

TryInto ==
  /\ result' = [text |-> args.text, op |-> "try_into", out |-> KeyType_try_into(args.text)]
  /\ UNCHANGED <<wallet, locked, lock_call, key, args>>

ParseNext ==
  \/ FromStr
  \/ TryInto

ParseSpec == ParseInit /\ [][ParseNext]_vars

(***************************************************************************)
(* The properties.                                                         *)
(***************************************************************************)
DecryptionFailed == Err("AeadCryptoError")
\* an unlock of what lock returned for the wallet and password in lock_call
UnlockOfLock == result.op = "unlock" /\ result.from # NoCall

\* C1: unlocking what lock returned, with the non-empty password it was
\* locked with, succeeds and returns the wallet that was locked (id,
\* context, wallet_type and content map), after any number of cycles.
C1_WalletRoundTrip == (UnlockOfLock /\ result.key = result.from.key /\ result.key # 0) => result.out = Ok(result.from.self)

\* C4: unlocking what lock returned, with another password than the one it
\* was locked with, returns the AEAD decryption error: no wallet, no parse
\* or encoding error.
C4_WrongPasswordFails == (UnlockOfLock /\ result.key # result.from.key) => result.out = DecryptionFailed
C4_Witness == UnlockOfLock /\ result.key # result.from.key /\ result.key # 0 /\ result.from.key # 0 /\ result.out = DecryptionFailed

\* C9: the ciphertext lock returns is the XChaCha20-Poly1305 payload, sealed
\* under the SHA3-256 of the password, followed by the 24-byte nonce that
\* sealed it: the layout unlock splits.
C9_LockedBlobLayout ==
  result.op = "lock" =>
    LET ct == result.out.ok.ciphertext
    IN /\ Len(ct) >= NONCE_LEN
       /\ \E n \in Randoms : Suffix(ct, Len(ct) - NONCE_LEN) = NonceBytes(n, NONCE_LEN)
       /\ Prefix(ct, Len(ct) - NONCE_LEN) = Seal("XChaCha20Poly1305", Sha3_256(result.key), Suffix(ct, Len(ct) - NONCE_LEN), "", to_string(result.self))

\* C10: sign_raw, verify_raw and decrypt answer a reference alike: an absent
\* reference with the no-such-reference error, an entry that is no key with
\* the incorrect-content-type error, and only a key entry with what the key
\* operation returns; the content map is as it was.
LookupOps == {"sign_raw", "verify_raw", "decrypt"}
KeyOperation == CASE result.op = "sign_raw" -> Key_sign(result.self.contents[result.key_ref].key, DataBytes(result.data)) [] result.op = "verify_raw" -> Key_verify(result.self.contents[result.key_ref].key, DataBytes(result.data), result.signature) [] result.op = "decrypt" -> Key_decrypt(result.self.contents[result.key_ref].key, result.data)
C10_LookupSemantics ==
  result.op \in LookupOps =>
    /\ wallet = result.self
    /\ IF result.key_ref \notin DOMAIN result.self.contents THEN result.out = Err("no key found")
       ELSE IF ~ IsContentKey(result.self.contents[result.key_ref]) THEN result.out = Err("incorrect content type")
       ELSE result.out = KeyOperation /\ result.out \notin {Err("no key found"), Err("incorrect content type")}
C10_Witness == result.op = "verify_raw" /\ result.key_ref \in DOMAIN result.self.contents /\ ~ IsContentKey(result.self.contents[result.key_ref]) /\ result.out = Err("incorrect content type")

\* the key pairs new and random_pair return, with any controller set
IsMadeKeyPair(kp, pki) == \E c \in Controllers : KeyPair_controller(kp, c).public_key = pki

\* C2: for a key pair of a signing type that new or random_pair returned and
\* non-empty data, verify of the data and the signature sign returned for
\* it is Ok(true).
SignedBySelf == result.op = "verify" /\ result.data # 0 /\ \E kp \in KeyPairs : IsMadeKeyPair(kp, result.self) /\ KeyPair_sign(kp, DataBytes(result.data)) = Ok(result.signature)
C2_SignVerifyRoundTrip == SignedBySelf => result.out = Ok(TRUE)
C2_Witness == SignedBySelf /\ result.self.key_type = "EcdsaSecp256k1RecoveryMethod2020" /\ result.out = Ok(TRUE)

\* C3: decrypt of what encrypt returned for the public key of the same
\* X25519 key pair returns the data; of what encrypt returned for the public
\* key of another X25519 key pair, the decryption error.
IsX25519Pair(k) == IsKeyPair(k) /\ k.public_key.key_type = "X25519KeyAgreementKey2019" /\ \E kp \in KeyPairs : IsMadeKeyPair(kp, k.public_key) /\ kp.private_key = k.private_key
C3_SealedBoxRoundTrip ==
  (result.op = "decrypt" /\ IsX25519Pair(result.self)) =>
    \A kp \in KeyPairs, d \in Data, r \in Randoms :
      PublicKeyInfo_encrypt(kp.public_key, DataBytes(d), r, r) = Ok(result.data) =>
        result.out = IF kp.public_key.public_key = result.self.public_key.public_key THEN Ok(DataBytes(d)) ELSE DecryptionFailed
C3_Witness == result.op = "decrypt" /\ IsX25519Pair(result.self) /\ \E d \in Data, r \in Randoms : d # 0 /\ PublicKeyInfo_encrypt(result.self.public_key, DataBytes(d), r, r) = Ok(result.data) /\ result.out = Ok(DataBytes(d))

\* C5: for a key type verify handles, a signature whose length is not the
\* signature size of the type makes verify return an error: not Ok, and
\* no abort.
SignatureSize(kt) == CASE kt = "EcdsaSecp256k1RecoveryMethod2020" -> 2 * SCALAR_LEN + 1 [] kt = "Bls12381G1Key2020" -> BLS_G1_LEN [] kt = "Bls12381G2Key2020" -> BLS_G2_LEN [] OTHER -> ED25519_SIGNATURE_LEN
C5_MalformedLengthIsError == (result.op = "verify" /\ result.self.key_type \in VerifyingTypes /\ Len(result.signature) # SignatureSize(result.self.key_type)) => IsErr(result.out)

\* C6: for a key type verify handles, a well-formed signature that was made
\* for other data, or by another key pair of the type, makes verify return
\* Ok(false), not an error.
PublicKeysOf(kt, s) ==
  CASE kt = "Ed25519VerificationKey2018" -> {PublicBytes("ed25519", s, KEYSIZE)}
    [] kt \in {"EcdsaSecp256k1VerificationKey2019", "EcdsaSecp256k1RecoveryMethod2020"} -> {PublicBytes("secp256k1", s, SEC1_COMPRESSED_LEN), PublicBytes("secp256k1", s, SEC1_UNCOMPRESSED_LEN)}
    [] kt = "Bls12381G1Key2020" -> {PublicBytes("bls_g1", s, BLS_G1_LEN)}
    [] kt = "Bls12381G2Key2020" -> {PublicBytes("bls_g2", s, BLS_G2_LEN)}
SignatureOf(kt, s, d) ==
  CASE kt \in SigningTypes -> KeyPair_sign(KeyPair_new(kt, SecretBytes(s)).ok, DataBytes(d)).ok
    [] kt = "Bls12381G1Key2020" -> SignatureBytes("bls_vt", "hash_to_curve", s, d, BLS_G2_LEN)
    [] kt = "Bls12381G2Key2020" -> SignatureBytes("bls", "hash_to_curve", s, d, BLS_G1_LEN)
MadeForOther == result.op = "verify" /\ result.self.key_type \in VerifyingTypes /\ \E s1 \in KeyIds, s2 \in KeyIds, d2 \in Data : result.self.public_key \in PublicKeysOf(result.self.key_type, s1) /\ result.signature = SignatureOf(result.self.key_type, s2, d2) /\ <<s2, d2>> # <<s1, result.data>>
C6_MismatchIsFalse == MadeForOther => result.out = Ok(FALSE)

\* C7: every operation on a declared but unimplemented key type (Rsa, Jws,
\* Gpg, Schnorr) fails with UnsupportedKeyType.
OperationKeyType == CASE result.op \in {"new", "random_pair"} -> result.key_type [] result.op \in {"sign", "decrypt"} -> result.self.public_key.key_type [] result.op \in {"verify", "encrypt"} -> result.self.key_type
CryptoOps == {"new", "random_pair", "sign", "verify", "encrypt", "decrypt"}
C7_UnimplementedIsUnsupported == (result.op \in CryptoOps /\ OperationKeyType \in UnimplementedTypes) => result.out = Err("UnsupportedKeyType")

Parsed == result.op \in {"from_str", "try_into"}
C11_KeyTypeParsing ==
  Parsed =>
    /\ result.out = IF result.text \in KeyType THEN Ok(result.text) ELSE Err("UnsupportedKeyType")
    /\ \A t \in ParseTexts : (t # result.text /\ IsOk(result.out)) => KeyType_from_str(t) # result.out
    /\ KeyType_try_into(result.text) = KeyType_from_str(result.text)
C11_Witness == result.op = "try_into" /\ result.text = "ed25519verificationkey2018" /\ result.out = Err("UnsupportedKeyType")

\* C12: new is a function of its arguments for Ed25519, secp256k1 and
\* X25519: the public key is the one of the given secret and of no other,
\* whenever it is called; the key pair has the requested type and an empty
\* controller list; its private key is the secret (secp256k1, X25519), or
\* the secret followed by the public key, 64 bytes (Ed25519).
CurveOf(kt) == CASE kt = "Ed25519VerificationKey2018" -> "ed25519" [] kt = "X25519KeyAgreementKey2019" -> "x25519" [] OTHER -> "secp256k1"
PublicKeyLen(kt) == IF CurveOf(kt) = "secp256k1" THEN SEC1_COMPRESSED_LEN ELSE KEYSIZE
NewOfImplemented == result.op = "new" /\ result.key_type \in ImplementedTypes
C12_NewIsDeterministic ==
  NewOfImplemented =>
    /\ IsOk(result.out)
    /\ key = result.out.ok
    /\ key.public_key.key_type = result.key_type
    /\ key.public_key.controller = <<>>
    /\ \A s \in KeyIds : IsPublicOf(key.public_key.public_key, CurveOf(result.key_type), PublicKeyLen(result.key_type), s) <=> s = result.secret
    /\ IF result.key_type = "Ed25519VerificationKey2018"
       THEN key.private_key = SecretBytes(result.secret) \o key.public_key.public_key /\ Len(key.private_key) = 2 * SECRET_LEN
       ELSE key.private_key = SecretBytes(result.secret)
C12_Witness == NewOfImplemented /\ result.key_type = "Ed25519VerificationKey2018" /\ result.secret = MaxSecret /\ IsOk(result.out) /\ Len(result.out.ok.private_key) = 2 * SECRET_LEN

\* C13: unlock of any LockedWallet (its ciphertext shorter than 24 bytes, or
\* empty, included) with any password returns a wallet or an error and does
\* not abort, and the LockedWallet is as it was.
C13_UnlockIsTotal == result.op = "unlock" => (IsOk(result.out) \/ IsErr(result.out)) /\ locked = result.self

\* C14: for EcdsaSecp256k1RecoveryMethod2020, verify returns Ok(true)
\* exactly when the key recovered from the 65-byte r || s || v signature,
\* with v the recovery id sign appended, and the Keccak-256 digest of the
\* data is the held public key.
RecoveryVerify == result.op = "verify" /\ result.self.key_type = "EcdsaSecp256k1RecoveryMethod2020"
\* r || s || v recovers the key of the secret that signed the Keccak-256
\* digest of the data, when v is the recovery id of that signature
RecoversHeldKey == \E s \in KeyIds : IsSec1Of(result.self.public_key, s) /\ result.signature = SignatureOf("EcdsaSecp256k1RecoveryMethod2020", s, result.data)
C14_RecoveryVerify == RecoveryVerify => (result.out = Ok(TRUE) <=> RecoversHeldKey)

\* C15: a key pair that new or random_pair returned keeps, under controller,
\* sign, verify, encrypt, decrypt and clean in any order, the key type it
\* was built with and a private key that is the secret of its public key
\* under that type; controller changes the controller list alone and the
\* other operations change nothing.
Corresponds(kp) ==
  /\ kp.public_key.key_type \in ImplementedTypes
  /\ Len(kp.private_key) = IF kp.public_key.key_type = "Ed25519VerificationKey2018" THEN 2 * SECRET_LEN ELSE SECRET_LEN
  /\ \E s \in KeyIds : IsSecretOf(kp.private_key, s) /\ IsPublicOf(kp.public_key.public_key, CurveOf(kp.public_key.key_type), PublicKeyLen(kp.public_key.key_type), s)
ConsistentKeyPair == IsKeyPair(key) => Corresponds(key)
KeyPairStep ==
  /\ (key = NoKey /\ key' # NoKey) => (result'.op \in {"new", "random_pair"} /\ key'.public_key.key_type = result'.key_type)
  /\ key # NoKey =>
       /\ IsKeyPair(key')
       /\ key'.private_key = key.private_key
       /\ key'.public_key.key_type = key.public_key.key_type
       /\ key'.public_key.public_key = key.public_key.public_key
       /\ IF result'.op = "controller" THEN key'.public_key.controller = result'.controller ELSE key' = key
C15_KeyPairConsistency == [] ConsistentKeyPair /\ [][KeyPairStep]_vars
C15_Witness == result.op = "decrypt" /\ IsOk(result.out) /\ key.public_key.controller # <<>> /\ Corresponds(key)

=============================================================================
